---- MODULE Spec2Model ----
(***************************************************************************)
(* j12dump: the serial port functions (SerialOpen, SerialClose,            *)
(* SerialFlush, SerialDrain, SerialInit, SerialSetTimeout), the transport  *)
(* (SerialReceiveBuffer, SerialSendBuffer) and the command decoder of      *)
(* main() (ReadPedal, ReadButton), modelled from src/j12dump.c.            *)
(*                                                                         *)
(* Four specifications share the variables:                                *)
(*   Spec      main() (lines 256-311): the start-up and the monitor loop,  *)
(*             fed by a byte stream `wire`;                                *)
(*   SpecLive  main() with a scheduled process, for progress;              *)
(*   SpecApi   the transport functions called with arbitrary arguments on  *)
(*             an open port;                                               *)
(*   SpecPort  the port functions called in any order from process start.  *)
(* The system calls are the environment: each call returns one of the      *)
(* results it can return (read and write: a count, 0, EINTR, another       *)
(* error; open and ioctl: success or failure).                             *)
(***************************************************************************)
EXTENDS Integers, Sequences, FiniteSets, TLC

(* ---- bounds ---------------------------------------------------------- *)
MaxStream == 3          \* bytes the device sends in one run
MaxLen == 3             \* largest length passed to SerialReceiveBuffer
MaxSend == 3            \* largest length passed to SerialSendBuffer
MaxFds == 2             \* descriptors the process may hold beside 0, 1, 2
MaxCalls == 3           \* port functions the caller calls in one run

(* ---- program constants ----------------------------------------------- *)
SERIAL_OK == 0
SERIAL_ERR == -1
SERIAL_ERR_OPEN == -2
SERIAL_ERR_READ == -3
SERIAL_ERR_WRITE == -4
SERIAL_ERR_INIT == -5
SERIAL_ERR_TIMEOUT == -6
NumButtons == 12        \* sizeof (btn)

(* ---- sampled inputs -------------------------------------------------- *)
\* 0x12 unrecognized, 0xE0/0xE1 pedal, 0xF3/0xF5 button, 0xFD button index
\* 13 (beyond btn[]), 0xFF clear
Bytes == {18, 224, 225, 243, 245, 253, 255}
ApiBytes == {18, 224}
TimeoutInputs == {-1, 0, 1, 100, 101, 25600}
Uninit == -1            \* an automatic variable not yet written

SeqsUpTo(S, n) == UNION {[1..k -> S] : k \in 0..n}

VARIABLES
    fd,         \* static int fd
    settings,   \* static struct termios2 settings
    exp,        \* static unsigned char exp[2][2]
    btn,        \* static unsigned char btn[12]
    cmd,        \* main: unsigned char cmd
    err,        \* main: int err
    wire,       \* the bytes the device sends, in order
    rpos,       \* index in wire of the next byte read(2) will deliver
    pc,         \* position of the single thread of control
    ctx,        \* the caller of the running transport function
    rx,         \* frame of SerialReceiveBuffer: buf, *len, length, timeout
    ret,        \* return value of the last transport call
    ubuf,       \* buffer the API caller passes to SerialReceiveBuffer
    tx,         \* frame of SerialSendBuffer: buf, len
    out,        \* bytes write(2) accepted during the current send
    pre,        \* exp, btn, rpos at the start of the loop iteration
    wr,         \* indices i of the writes btn[i] = 1 of this iteration
    osfd,       \* the descriptors the process holds open
    tty,        \* the line configuration the driver holds
    sys,        \* the system calls the port functions issued, in order
    hopen,      \* the last SerialOpen returned SERIAL_OK, no SerialClose since
    call,       \* the port function called last, its arguments, the state before
    ncalls      \* the number of port functions the caller has called

\* the operating system's side and the record of the calls
os == <<osfd, tty, sys, hopen, call, ncalls>>

vars == <<fd, settings, exp, btn, cmd, err, wire, rpos, pc, ctx, rx,
          ret, ubuf, tx, out, pre, wr, osfd, tty, sys, hopen, call, ncalls>>

(* ---- helpers ---------------------------------------------------------- *)
Min(a, b) == IF a < b THEN a ELSE b

\* bytes written at offset off (0-based) of a buffer held as a sequence
Overlay(old, off, bytes) ==
    [i \in 1..Len(old) |->
        IF i > off /\ i <= off + Len(bytes) THEN bytes[i - off] ELSE old[i]]

HighNibble(c) == c - (c % 16)       \* cmd & 0xF0
LowNibble(c) == c % 16              \* cmd & 0x0F
LowBit(c) == c % 2                  \* cmd & 0x01

\* no call in progress. Beside the function's variables a frame records the
\* length requested (n), the stream position at entry (start) and the result
\* of the latest read() or write() (res).
IdleRx == [buf |-> "none", len |-> 0, length |-> 0, timeout |-> 0,
           off |-> 0, n |-> 0, start |-> 1, res |-> "none"]
IdleTx == [buf |-> <<>>, len |-> 0, off |-> 0, res |-> "none"]

(* ---- termios flags ---------------------------------------------------- *)
\* A flag word is the set of the positions of its 1 bits: | is \cup and
\* & ~ is set difference. The values are those of <asm/termbits.h>.
CSIZE == {4, 5}
CS5 == {}
CS6 == {4}
CS7 == {5}
CS8 == {4, 5}
CSTOPB == {6}
CREAD == {7}
PARENB == {8}
PARODD == {9}
HUPCL == {10}
CLOCAL == {11}
CBAUD == {0, 1, 2, 3, 12}
BOTHER == {12}
B300 == {0, 1, 2}
B2400 == {0, 1, 3}
B4800 == {2, 3}
B9600 == {0, 2, 3}
B19200 == {1, 2, 3}
B38400 == {0, 1, 2, 3}
B57600 == {0, 12}
B115200 == {1, 12}
CRTSCTS == {31}
IGNPAR == {2}

\* const char *format: the characters of the string, or the null pointer
NULL == <<"NULL">>

\* O_RDWR | O_NOCTTY | O_NDELAY, the flags of the open() of line 32; no
\* fcntl() changes them later
OpenFlags_Blocking == {"O_RDWR", "O_NOCTTY"}

OpenFlags == {"O_RDWR", "O_NOCTTY", "O_NDELAY"}

\* static struct termios2 settings before SerialOpen: all zero
ZeroSettings == [c_cflag |-> {}, c_iflag |-> {}, c_ispeed |-> 0,
                 c_ospeed |-> 0, VMIN |-> 0, VTIME |-> 0]

\* what a serial device holds when nothing configured it: 38400 8N1
DeviceDefault == [c_cflag |-> B38400 \cup CS8 \cup CREAD \cup HUPCL,
                  c_iflag |-> {8, 10}, c_ispeed |-> 38400, c_ospeed |-> 38400]

\* a device another program left at 9600 7O2 with hardware handshake
DeviceUsed == [c_cflag |-> B9600 \cup CS7 \cup PARENB \cup PARODD \cup CSTOPB
                              \cup CREAD \cup CRTSCTS,
               c_iflag |-> {}, c_ispeed |-> 9600, c_ospeed |-> 9600]

\* c_cc[VMIN], c_cc[VTIME] the driver may hold when the port is opened
DriverCc == {[VMIN |-> 1, VTIME |-> 0], [VMIN |-> 0, VTIME |-> 1]}

IdleCall == [op |-> "none"]

(* ---- SerialOpen, SerialClose, SerialFlush, SerialDrain (lines 29-65) --- *)
\* open() returns the lowest descriptor not in use; 0, 1, 2 are the standard
\* streams
NewFd == CHOOSE d \in 3..(3 + MaxFds) :
             d \notin osfd /\ \A e \in 3..(d - 1) : e \in osfd

\* the outcomes of SerialOpen(device): open() fails; open() succeeds and
\* ioctl(TCGETS2) fails, which leaves the descriptor in fd; both succeed and
\* settings holds the driver's configuration
SerialOpen ==
    {[fd |-> -1, osfd |-> osfd, settings |-> settings,
      sys |-> <<"open">>, ret |-> SERIAL_ERR_OPEN]}
    \cup
    (IF Cardinality(osfd) < MaxFds
     THEN {[fd |-> NewFd, osfd |-> osfd \cup {NewFd}, settings |-> settings,
            sys |-> <<"open", "TCGETS2">>, ret |-> SERIAL_ERR_OPEN]}
          \cup
          {[fd |-> NewFd, osfd |-> osfd \cup {NewFd},
            settings |-> [c_cflag |-> tty.c_cflag, c_iflag |-> tty.c_iflag,
                          c_ispeed |-> tty.c_ispeed,
                          c_ospeed |-> tty.c_ospeed,
                          VMIN |-> cc.VMIN, VTIME |-> cc.VTIME],
            sys |-> <<"open", "TCGETS2">>, ret |-> SERIAL_OK] :
              cc \in DriverCc}
     ELSE {})

\* close(fd), whatever fd holds: a descriptor that is not open is left to
\* the system to refuse (EBADF); fd keeps its value
SerialClose ==
    [osfd |-> osfd \ {fd}, sys |-> <<"close">>]

SerialFlush ==
    IF fd < 0
    THEN [sys |-> <<>>, ret |-> SERIAL_ERR]
    ELSE [sys |-> <<"tcflush">>, ret |-> SERIAL_OK]

SerialDrain ==
    IF fd < 0
    THEN [sys |-> <<>>, ret |-> SERIAL_ERR]
    ELSE [sys |-> <<"tcdrain">>, ret |-> SERIAL_OK]

(* ---- SerialSetTimeout (lines 67-82) ----------------------------------- *)
\* c_cc[] elements are unsigned char: the assignment keeps the low 8 bits
VTimeOf(ms) == ((ms + 99) \div 100) % 256

\* VMIN is 0 for every ms
SerialSetTimeout_NonBlocking(ms) ==
    LET s == IF ms < 0
             THEN [settings EXCEPT !.VMIN = 0, !.VTIME = 0]
             ELSE [settings EXCEPT !.VMIN = 0, !.VTIME = VTimeOf(ms)]
    IN {[settings |-> s, ret |-> SERIAL_ERR_INIT]}
       \cup (IF fd \in osfd
             THEN {[settings |-> s, ret |-> SERIAL_OK]} ELSE {})

\* the outcomes of the call: settings is written, then handed to the driver
\* by ioctl(TCSETS2), which succeeds or fails; on a descriptor that is not
\* open it fails
SerialSetTimeout(ms) ==
    LET s == IF ms < 0
             THEN [settings EXCEPT !.VMIN = 0, !.VTIME = 0]
             ELSE [settings EXCEPT !.VMIN = IF ms # 0 THEN 0 ELSE 1,
                                   !.VTIME = VTimeOf(ms)]
    IN {[settings |-> s, ret |-> SERIAL_ERR_INIT]}
       \cup (IF fd \in osfd
             THEN {[settings |-> s, ret |-> SERIAL_OK]} ELSE {})

\* read() has nothing to return and waits: no byte is pending, the
\* descriptor was opened without O_NDELAY, and the driver was told to wait
\* for a first byte without a time limit (VMIN > 0, VTIME = 0)
Blocks ==
    /\ fd \in osfd
    /\ "O_NDELAY" \notin OpenFlags
    /\ rpos > Len(wire)
    /\ settings.VMIN > 0 /\ settings.VTIME = 0

(* ---- SerialInit (lines 84-165) --------------------------------------- *)
NamedBauds == {115200, 57600, 38400, 19200, 9600, 4800, 2400, 300}

\* the Bxxx code of the cases of lines 124-131
BaudCode(baud) ==
    CASE baud = 115200 -> B115200
      [] baud = 57600 -> B57600
      [] baud = 38400 -> B38400
      [] baud = 19200 -> B19200
      [] baud = 9600 -> B9600
      [] baud = 4800 -> B4800
      [] baud = 2400 -> B2400
      [] baud = 300 -> B300

\* the bits the cases of lines 100-103, 109-111 and 117-118 set
DataSize(ch) ==
    CASE ch = "5" -> CS5 [] ch = "6" -> CS6 [] ch = "7" -> CS7 [] ch = "8" -> CS8

Parity(ch) ==
    CASE ch = "N" -> {}
      [] ch = "O" -> PARODD \cup PARENB       \* falls through to case 'E'
      [] ch = "E" -> PARENB

StopBits(ch) ==
    CASE ch = "1" -> {} [] ch = "2" -> CSTOPB

\* only the length of the string is tested
Rejects_LengthOnly(format) ==
    format = NULL \/ Len(format) # 3

\* the returns of lines 91-93 and the default cases of the three switches
Rejects(format) ==
    \/ format = NULL
    \/ Len(format) # 3
    \/ format[1] \notin {"5", "6", "7", "8"}
    \/ format[2] \notin {"N", "O", "E"}
    \/ format[3] \notin {"1", "2"}

\* the outcomes of SerialInit(baud, format, rtscts): a return before any
\* system call; ioctl(TCSETS2) fails; ioctl(TCGETS2) fails; success. The
\* driver keeps the configuration it is handed and reads it back unchanged.
\* cflags starts from settings.c_cflag (line 86) and is only ever or-ed
\* into, but for the CBAUD bits of a rate without a code.
SerialInit(baud, format, rtscts) ==
    LET sized == settings.c_cflag \cup CLOCAL \cup CREAD
                     \cup (IF format[1] \in {"5", "6", "7", "8"}
                           THEN DataSize(format[1]) ELSE {})
        framed == sized
                     \cup (IF format[2] \in {"N", "O", "E"}
                           THEN Parity(format[2]) ELSE {})
                     \cup (IF format[3] \in {"1", "2"}
                           THEN StopBits(format[3]) ELSE {})
        clocked == IF baud \in NamedBauds
                   THEN framed \cup BaudCode(baud)
                   ELSE (framed \ CBAUD) \cup BOTHER
        speed == IF baud \in NamedBauds THEN 0 ELSE baud
        cflags == IF rtscts # 0 THEN clocked \cup CRTSCTS ELSE clocked
        s == [c_cflag |-> cflags, c_iflag |-> IGNPAR, c_ispeed |-> speed,
              c_ospeed |-> speed, VMIN |-> 0, VTIME |-> 0]
        driver == [c_cflag |-> cflags, c_iflag |-> IGNPAR,
                   c_ispeed |-> speed, c_ospeed |-> speed]
    IN IF fd < 0 \/ Rejects(format)
       THEN {[settings |-> settings, tty |-> tty, sys |-> <<>>,
              ret |-> SERIAL_ERR_INIT]}
       ELSE {[settings |-> s, tty |-> tty, sys |-> <<"TCSETS2">>,
              ret |-> SERIAL_ERR_INIT]}
            \cup
            (IF fd \in osfd
             THEN {[settings |-> s, tty |-> driver,
                    sys |-> <<"TCSETS2", "TCGETS2">>,
                    ret |-> SERIAL_ERR_INIT],
                   [settings |-> s, tty |-> driver,
                    sys |-> <<"TCSETS2", "TCGETS2">> \o SerialFlush.sys,
                    ret |-> SERIAL_OK]}
             ELSE {})

(* ---- SerialReceiveBuffer (lines 191-226) ------------------------------ *)
\* the buffer argument, and the store through it
Store(off, bytes) ==
    /\ cmd' = IF rx.buf = "cmd" THEN bytes[1] ELSE cmd
    /\ exp' = IF rx.buf \in {"exp0", "exp1"}
              THEN LET p == IF rx.buf = "exp0" THEN 0 ELSE 1
                   IN [exp EXCEPT ![p] = Overlay(@, off, bytes)]
              ELSE exp
    /\ ubuf' = IF rx.buf = "ubuf" THEN Overlay(ubuf, off, bytes) ELSE ubuf

\* the fill position is not moved
Advance_NoMove(off, received) == off

\* buf = (char *)buf + received
Advance(off, received) == off + received

\* the test reads timeout <= 0
ZeroReadResult_Le(timeout) ==
    IF timeout <= 0 THEN SERIAL_OK ELSE SERIAL_ERR_TIMEOUT

\* lines 214-216
ZeroReadResult(timeout) ==
    IF timeout < 0 THEN SERIAL_OK ELSE SERIAL_ERR_TIMEOUT

SerialReceiveBuffer_Enter ==
    /\ pc = "rx_enter"
    /\ IF fd < 0
       THEN /\ ret' = SERIAL_ERR_READ
            /\ pc' = "rx_done"
            /\ UNCHANGED settings
       ELSE /\ \E r \in SerialSetTimeout(rx.timeout) :
                   settings' = r.settings
            /\ pc' = "rx_loop"
            /\ ret' = ret
    /\ UNCHANGED <<os, fd, exp, btn, cmd, err, wire, rpos, ctx, rx, ubuf, tx,
                   out, pre, wr>>

\* read() returned received > 0 bytes
SerialReceiveBuffer_Data ==
    /\ pc = "rx_loop"
    /\ rx.len > 0
    /\ fd \in osfd
    /\ \E received \in 1..Min(rx.len, Len(wire) - rpos + 1) :
          /\ Store(rx.off, SubSeq(wire, rpos, rpos + received - 1))
          /\ rpos' = rpos + received
          /\ rx' = [rx EXCEPT !.length = @ + received,
                              !.len = @ - received,
                              !.off = Advance(@, received),
                              !.res = "data"]
    /\ UNCHANGED <<os, fd, settings, btn, err, wire, pc, ctx, ret, tx, out,
                   pre, wr>>

\* the retry is missing: lines 219-220 run with received = -1
SerialReceiveBuffer_Eintr_Counted ==
    /\ pc = "rx_loop"
    /\ rx.len > 0
    /\ rx' = [rx EXCEPT !.len = @ + 1, !.off = @ - 1, !.res = "eintr"]
    /\ UNCHANGED <<os, fd, settings, exp, btn, cmd, err, wire, rpos, pc, ctx,
                   ret, ubuf, tx, out, pre, wr>>

\* read() returned -1 with errno == EINTR
SerialReceiveBuffer_Eintr ==
    /\ pc = "rx_loop"
    /\ rx.len > 0
    /\ fd \in osfd
    /\ rx' = [rx EXCEPT !.res = "eintr"]
    /\ UNCHANGED <<os, fd, settings, exp, btn, cmd, err, wire, rpos, pc, ctx,
                   ret, ubuf, tx, out, pre, wr>>

\* read() returned -1 with another errno (EBADF when fd is not open)
SerialReceiveBuffer_Fail ==
    /\ pc = "rx_loop"
    /\ rx.len > 0
    /\ ~Blocks
    /\ rx' = [rx EXCEPT !.len = rx.length, !.res = "fail"]
    /\ ret' = SERIAL_ERR_READ
    /\ pc' = "rx_done"
    /\ UNCHANGED <<os, fd, settings, exp, btn, cmd, err, wire, rpos, ctx,
                   ubuf, tx, out, pre, wr>>

\* read() returned 0
SerialReceiveBuffer_Zero ==
    /\ pc = "rx_loop"
    /\ rx.len > 0
    /\ fd \in osfd
    /\ ~Blocks
    /\ rx' = [rx EXCEPT !.len = rx.length, !.res = "zero"]
    /\ ret' = ZeroReadResult(rx.timeout)
    /\ pc' = "rx_done"
    /\ UNCHANGED <<os, fd, settings, exp, btn, cmd, err, wire, rpos, ctx,
                   ubuf, tx, out, pre, wr>>

\* the loop condition fails: lines 223-225
SerialReceiveBuffer_Done ==
    /\ pc = "rx_loop"
    /\ rx.len = 0
    /\ rx' = [rx EXCEPT !.len = rx.length]
    /\ ret' = SERIAL_OK
    /\ pc' = "rx_done"
    /\ UNCHANGED <<os, fd, settings, exp, btn, cmd, err, wire, rpos, ctx,
                   ubuf, tx, out, pre, wr>>

(* ---- ReadButton (lines 247-254) --------------------------------------- *)
\* btn[button] with button in 12..14 lies beyond the array: the byte written
\* is whatever the linker placed there. With exp[] laid out right behind
\* btn[] it is one of the pedal bytes, otherwise nothing the program reads.
OutOfBounds(button) ==
    LET k == button - NumButtons
        p == k \div 2
        j == (k % 2) + 1
    IN {exp, [exp EXCEPT ![p][j] = 1]}

\* the flag is assigned into a cleared array instead of set in place
ReadButton_Assign(button) ==
    IF button = 15
    THEN {[btn |-> [i \in 0..(NumButtons - 1) |-> 0], exp |-> exp, wr |-> wr]}
    ELSE {[btn |-> [i \in 0..(NumButtons - 1) |-> IF i = button THEN 1 ELSE 0],
           exp |-> exp, wr |-> wr \cup {button}]}

\* the outcomes of the call
ReadButton(button) ==
    IF button = 15
    THEN {[btn |-> [i \in 0..(NumButtons - 1) |-> 0], exp |-> exp, wr |-> wr]}
    ELSE IF button < NumButtons
         THEN {[btn |-> [btn EXCEPT ![button] = 1], exp |-> exp,
                wr |-> wr \cup {button}]}
         ELSE {[btn |-> btn, exp |-> e, wr |-> wr \cup {button}] :
                   e \in OutOfBounds(button)}

(* ---- main (lines 278-306) --------------------------------------------- *)
\* the button case taken as the default of the switch
Classify_Default(c) ==
    IF HighNibble(c) = 224 THEN "pedal" ELSE "button"

\* the mask is 0xE0: the button commands count as pedal commands too
Classify_Mask(c) ==
    IF c - (c % 32) = 224 THEN "pedal" ELSE "none"

\* switch (cmd & 0xF0)
Classify(c) ==
    IF HighNibble(c) = 224 THEN "pedal"
    ELSE IF HighNibble(c) = 240 THEN "button"
    ELSE "none"

\* lines 264-268: SerialOpen(port); on an error the message is printed and
\* main returns -1
main_SerialOpen ==
    /\ pc = "main"
    /\ \E r \in SerialOpen :
          /\ fd' = r.fd
          /\ osfd' = r.osfd
          /\ settings' = r.settings
          /\ sys' = sys \o r.sys
          /\ ret' = r.ret
          /\ hopen' = (r.ret = SERIAL_OK)
          /\ pc' = IF r.ret # SERIAL_OK THEN "exit" ELSE "opened"
    /\ UNCHANGED <<exp, btn, cmd, err, wire, rpos, ctx, rx, ubuf, tx, out,
                   pre, wr, tty, call, ncalls>>

\* lines 270-274: SerialInit(10416, "8N1", 0); on an error the message is
\* printed and main returns -1
main_SerialInit ==
    /\ pc = "opened"
    /\ \E r \in SerialInit(10416, <<"8", "N", "1">>, 0) :
          /\ settings' = r.settings
          /\ tty' = r.tty
          /\ sys' = sys \o r.sys
          /\ ret' = r.ret
          /\ pc' = IF r.ret # SERIAL_OK THEN "exit" ELSE "clear"
    /\ UNCHANGED <<fd, exp, btn, cmd, err, wire, rpos, ctx, rx, ubuf, tx,
                   out, pre, wr, osfd, hopen, call, ncalls>>

\* lines 276-279: the speed is printed, btn and exp are cleared
main_Clear ==
    /\ pc = "clear"
    /\ btn' = [i \in 0..(NumButtons - 1) |-> 0]
    /\ exp' = [p \in 0..1 |-> <<0, 0>>]
    /\ pre' = [exp |-> exp', btn |-> btn', rpos |-> rpos]
    /\ pc' = "loop"
    /\ UNCHANGED <<os, fd, settings, cmd, err, wire, rpos, ctx, rx, ret,
                   ubuf, tx, out, wr>>

\* line 283: err = SerialReceiveByte(&cmd, 1), up to the call
main_ReceiveCommand ==
    /\ pc = "loop"
    /\ rx' = [buf |-> "cmd", len |-> 1, length |-> 0, timeout |-> 1,
              off |-> 0, n |-> 1, start |-> rpos, res |-> "none"]
    /\ ctx' = "main"
    /\ pc' = "rx_enter"
    /\ UNCHANGED <<os, fd, settings, exp, btn, cmd, err, wire, rpos, ret,
                   ubuf, tx, out, pre, wr>>

\* lines 283-293: the call returns, the error is logged, the switch runs.
\* cmd is read whether or not the receive stored a byte; before the first
\* byte arrives it holds whatever the stack held.
main_Switch ==
    /\ pc = "rx_done"
    /\ ctx = "main"
    /\ err' = ret
    /\ \E c \in (IF cmd = Uninit THEN Bytes ELSE {cmd}) :
          /\ cmd' = c
          /\ CASE Classify(c) = "pedal" ->
                    \* ReadPedal(cmd & 0x01), lines 236-239 up to the call
                    /\ rx' = [buf |-> IF LowBit(c) = 0 THEN "exp0" ELSE "exp1",
                              len |-> 2, length |-> 0, timeout |-> 0,
                              off |-> 0, n |-> 2, start |-> rpos, res |-> "none"]
                    /\ ctx' = "pedal"
                    /\ pc' = "rx_enter"
                    /\ UNCHANGED <<exp, btn, wr>>
               [] Classify(c) = "button" ->
                    /\ \E r \in ReadButton(LowNibble(c)) :
                          btn' = r.btn /\ exp' = r.exp /\ wr' = r.wr
                    /\ pc' = "render"
                    /\ UNCHANGED <<rx, ctx>>
               [] OTHER ->
                    /\ pc' = "render"
                    /\ UNCHANGED <<exp, btn, wr, rx, ctx>>
    /\ UNCHANGED <<os, fd, settings, wire, rpos, ret, ubuf, tx, out, pre>>

\* ReadPedal, lines 239-245: the receive returns, an error is logged
ReadPedal_Return ==
    /\ pc = "rx_done"
    /\ ctx = "pedal"
    /\ pc' = "render"
    /\ ctx' = "main"
    /\ UNCHANGED <<os, fd, settings, exp, btn, cmd, err, wire, rpos, rx,
                   ret, ubuf, tx, out, pre, wr>>

\* lines 295-305: print the state, sleep; the iteration ends. The frames of
\* the calls that returned are dead, and the next iteration starts from here.
main_Render ==
    /\ pc = "render"
    /\ pc' = "loop"
    /\ rx' = IdleRx
    /\ ret' = SERIAL_OK
    /\ pre' = [exp |-> exp, btn |-> btn, rpos |-> rpos]
    /\ wr' = {}
    /\ UNCHANGED <<os, fd, settings, exp, btn, cmd, err, wire, rpos, ctx,
                   ubuf, tx, out>>

(* ---- the monitor ------------------------------------------------------ *)
\* the process starts: the statics hold their initial values, the device
\* holds its default configuration and sends the bytes of wire
Init ==
    /\ fd = -1
    /\ settings = ZeroSettings
    /\ osfd = {}
    /\ tty = DeviceDefault
    /\ sys = <<>>
    /\ hopen = FALSE
    /\ call = IdleCall
    /\ ncalls = 0
    /\ exp = [p \in 0..1 |-> <<0, 0>>]
    /\ btn = [i \in 0..(NumButtons - 1) |-> 0]
    /\ cmd = Uninit
    /\ err = 0
    /\ wire \in SeqsUpTo(Bytes, MaxStream)
    /\ rpos = 1
    /\ pc = "main"
    /\ ctx = "main"
    /\ rx = IdleRx
    /\ ret = 0
    /\ ubuf = <<>>
    /\ tx = IdleTx
    /\ out = <<>>
    /\ pre = [exp |-> exp, btn |-> btn, rpos |-> rpos]
    /\ wr = {}

Next ==
    \/ main_SerialOpen
    \/ main_SerialInit
    \/ main_Clear
    \/ main_ReceiveCommand
    \/ SerialReceiveBuffer_Enter
    \/ SerialReceiveBuffer_Data
    \/ SerialReceiveBuffer_Eintr
    \/ SerialReceiveBuffer_Fail
    \/ SerialReceiveBuffer_Zero
    \/ SerialReceiveBuffer_Done
    \/ main_Switch
    \/ ReadPedal_Return
    \/ main_Render

Spec == Init /\ [][Next]_vars

\* main with a device that sends unrecognized bytes and pedal commands only.
\* The process is scheduled: while a step of main is possible, one is taken.
\* A read() that returns EINTR again and again is not a step of its own, so
\* the interrupts end.
InitLive ==
    /\ Init
    /\ wire \in SeqsUpTo(ApiBytes, MaxStream)

SpecLive == InitLive /\ [][Next]_vars /\ WF_vars(Next)

(* ---- SerialSendBuffer (lines 167-184) --------------------------------- *)
\* len -= written
Remainder(len, written) == len - written

\* the source pointer is not moved
SendAdvance_NoMove(off, written) == off

\* buf = (char *)buf + written
SendAdvance(off, written) == off + written

SerialSendBuffer_Enter ==
    /\ pc = "tx_enter"
    /\ IF fd < 0
       THEN ret' = SERIAL_ERR_WRITE /\ pc' = "tx_done"
       ELSE ret' = ret /\ pc' = "tx_loop"
    /\ UNCHANGED <<os, fd, settings, exp, btn, cmd, err, wire, rpos, ctx, rx,
                   ubuf, tx, out, pre, wr>>

\* write() returned written >= 0: the line took that many bytes of the rest
SerialSendBuffer_Written ==
    /\ pc = "tx_loop"
    /\ tx.len > 0
    /\ fd \in osfd
    /\ \E written \in 0..tx.len :
          /\ out' = out \o SubSeq(tx.buf, tx.off + 1, tx.off + written)
          /\ tx' = [tx EXCEPT !.len = Remainder(@, written),
                              !.off = SendAdvance(@, written),
                              !.res = "written"]
    /\ UNCHANGED <<os, fd, settings, exp, btn, cmd, err, wire, rpos, pc, ctx,
                   rx, ret, ubuf, pre, wr>>

\* write() returned -1 with errno == EINTR
SerialSendBuffer_Eintr ==
    /\ pc = "tx_loop"
    /\ tx.len > 0
    /\ fd \in osfd
    /\ tx' = [tx EXCEPT !.res = "eintr"]
    /\ UNCHANGED <<os, fd, settings, exp, btn, cmd, err, wire, rpos, pc, ctx, rx,
                   ret, ubuf, out, pre, wr>>

\* write() returned -1 with another errno
SerialSendBuffer_Fail ==
    /\ pc = "tx_loop"
    /\ tx.len > 0
    /\ tx' = [tx EXCEPT !.res = "fail"]
    /\ ret' = SERIAL_ERR_WRITE
    /\ pc' = "tx_done"
    /\ UNCHANGED <<os, fd, settings, exp, btn, cmd, err, wire, rpos, ctx, rx,
                   ubuf, out, pre, wr>>

\* the loop condition fails: line 183
SerialSendBuffer_Done ==
    /\ pc = "tx_loop"
    /\ tx.len = 0
    /\ ret' = SERIAL_OK
    /\ pc' = "tx_done"
    /\ UNCHANGED <<os, fd, settings, exp, btn, cmd, err, wire, rpos, ctx, rx,
                   ubuf, tx, out, pre, wr>>

(* ---- a caller of the transport functions ------------------------------ *)
\* SerialReceiveBuffer(buf, &len, timeout) with *len = n
Api_ReceiveBuffer ==
    /\ pc = "api"
    /\ \E n \in 0..MaxLen, t \in TimeoutInputs :
          /\ rx' = [buf |-> "ubuf", len |-> n, length |-> 0, timeout |-> t,
                    off |-> 0, n |-> n, start |-> rpos, res |-> "none"]
          /\ ubuf' = [i \in 1..n |-> 0]
    /\ ctx' = "buffer"
    /\ pc' = "rx_enter"
    /\ UNCHANGED <<os, fd, settings, exp, btn, cmd, err, wire, rpos, ret, tx,
                   out, pre, wr>>

\* SerialReceiveByte(c, timeout), lines 228-233: len = 1, and the count the
\* receive leaves in len is dropped
Api_ReceiveByte ==
    /\ pc = "api"
    /\ \E t \in TimeoutInputs :
          rx' = [buf |-> "ubuf", len |-> 1, length |-> 0, timeout |-> t,
                 off |-> 0, n |-> 1, start |-> rpos, res |-> "none"]
    /\ ubuf' = <<0>>
    /\ ctx' = "byte"
    /\ pc' = "rx_enter"
    /\ UNCHANGED <<os, fd, settings, exp, btn, cmd, err, wire, rpos, ret, tx,
                   out, pre, wr>>

\* SerialSendBuffer(buf, len)
Api_SendBuffer ==
    /\ pc = "api"
    /\ \E b \in SeqsUpTo(ApiBytes, MaxSend) :
          tx' = [buf |-> b, len |-> Len(b), off |-> 0, res |-> "none"]
    /\ out' = <<>>
    /\ ctx' = "send"
    /\ pc' = "tx_enter"
    /\ UNCHANGED <<os, fd, settings, exp, btn, cmd, err, wire, rpos, rx, ret,
                   ubuf, pre, wr>>

\* the transport function returns and the caller drops the results: each
\* call starts from the port alone
Api_Return ==
    /\ pc \in {"rx_done", "tx_done"}
    /\ ctx \in {"buffer", "byte", "send"}
    /\ pc' = "api"
    /\ ctx' = "buffer"
    /\ rx' = IdleRx
    /\ tx' = IdleTx
    /\ ubuf' = <<>>
    /\ out' = <<>>
    /\ ret' = SERIAL_OK
    /\ UNCHANGED <<os, fd, settings, exp, btn, cmd, err, wire, rpos, pre,
                   wr>>

\* settings after SerialOpen and SerialInit(10416, "8N1", 0) on a device
\* with its default configuration
MainSettings ==
    [c_cflag |-> ((DeviceDefault.c_cflag \cup CLOCAL \cup CREAD \cup CS8)
                      \ CBAUD) \cup BOTHER,
     c_iflag |-> IGNPAR, c_ispeed |-> 10416, c_ospeed |-> 10416,
     VMIN |-> 0, VTIME |-> 0]

\* the port is open and initialised (as after lines 264-274), nothing received
InitApi ==
    /\ fd = 3
    /\ settings = MainSettings
    /\ osfd = {3}
    /\ tty = [c_cflag |-> MainSettings.c_cflag, c_iflag |-> IGNPAR,
              c_ispeed |-> 10416, c_ospeed |-> 10416]
    /\ sys = <<>>
    /\ hopen = TRUE
    /\ call = IdleCall
    /\ ncalls = 0
    /\ exp = [p \in 0..1 |-> <<0, 0>>]
    /\ btn = [i \in 0..(NumButtons - 1) |-> 0]
    /\ cmd = Uninit
    /\ err = 0
    /\ wire \in SeqsUpTo(ApiBytes, MaxStream)
    /\ rpos = 1
    /\ pc = "api"
    /\ ctx = "buffer"
    /\ rx = IdleRx
    /\ ret = 0
    /\ ubuf = <<>>
    /\ tx = IdleTx
    /\ out = <<>>
    /\ pre = [exp |-> exp, btn |-> btn, rpos |-> rpos]
    /\ wr = {}

NextApi ==
    \/ Api_ReceiveBuffer
    \/ Api_ReceiveByte
    \/ Api_SendBuffer
    \/ Api_Return
    \/ SerialReceiveBuffer_Enter
    \/ SerialReceiveBuffer_Data
    \/ SerialReceiveBuffer_Eintr
    \/ SerialReceiveBuffer_Fail
    \/ SerialReceiveBuffer_Zero
    \/ SerialReceiveBuffer_Done
    \/ SerialSendBuffer_Enter
    \/ SerialSendBuffer_Written
    \/ SerialSendBuffer_Eintr
    \/ SerialSendBuffer_Fail
    \/ SerialSendBuffer_Done

SpecApi == InitApi /\ [][NextApi]_vars

(* ---- a caller of the port functions ----------------------------------- *)
SupportedFormats ==
    {<<d, p, b>> : d \in {"5", "6", "7", "8"}, p \in {"N", "O", "E"},
                   b \in {"1", "2"}}

\* every supported format; the null pointer, strings of 0, 2 and 4
\* characters, and strings of 3 characters with one character unknown
FormatInputs ==
    SupportedFormats \cup
    {NULL, <<>>, <<"8", "N">>, <<"8", "N", "1", "1">>,
     <<"9", "N", "1">>, <<"8", "n", "1">>, <<"8", "N", "3">>}

\* two named rates and the custom rate of main
BaudInputs == {9600, 115200, 10416}

\* the function called, its arguments, and the state it was called in
Call(op, baud, format, rtscts) ==
    [op |-> op, baud |-> baud, format |-> format, rtscts |-> rtscts,
     hopen |-> hopen, fd |-> fd, osfd |-> osfd, settings |-> settings,
     tty |-> tty]

Port_Open ==
    /\ pc = "api"
    /\ ncalls < MaxCalls
    /\ ncalls' = ncalls + 1
    /\ \E r \in SerialOpen :
          /\ fd' = r.fd
          /\ osfd' = r.osfd
          /\ settings' = r.settings
          /\ sys' = r.sys
          /\ ret' = r.ret
          /\ hopen' = (r.ret = SERIAL_OK)
    /\ call' = Call("open", 0, NULL, 0)
    /\ pc' = "port_done"
    /\ UNCHANGED <<exp, btn, cmd, err, wire, rpos, ctx, rx, ubuf, tx, out,
                   pre, wr, tty>>

Port_Close ==
    /\ pc = "api"
    /\ ncalls < MaxCalls
    /\ ncalls' = ncalls + 1
    /\ osfd' = SerialClose.osfd
    /\ sys' = SerialClose.sys
    /\ hopen' = FALSE
    /\ call' = Call("close", 0, NULL, 0)
    /\ pc' = "port_done"
    /\ UNCHANGED <<fd, settings, exp, btn, cmd, err, wire, rpos, ctx, rx,
                   ret, ubuf, tx, out, pre, wr, tty>>

Port_Flush ==
    /\ pc = "api"
    /\ ncalls < MaxCalls
    /\ ncalls' = ncalls + 1
    /\ sys' = SerialFlush.sys
    /\ ret' = SerialFlush.ret
    /\ call' = Call("flush", 0, NULL, 0)
    /\ pc' = "port_done"
    /\ UNCHANGED <<fd, settings, exp, btn, cmd, err, wire, rpos, ctx, rx,
                   ubuf, tx, out, pre, wr, osfd, tty, hopen>>

Port_Drain ==
    /\ pc = "api"
    /\ ncalls < MaxCalls
    /\ ncalls' = ncalls + 1
    /\ sys' = SerialDrain.sys
    /\ ret' = SerialDrain.ret
    /\ call' = Call("drain", 0, NULL, 0)
    /\ pc' = "port_done"
    /\ UNCHANGED <<fd, settings, exp, btn, cmd, err, wire, rpos, ctx, rx,
                   ubuf, tx, out, pre, wr, osfd, tty, hopen>>

Port_Init ==
    /\ pc = "api"
    /\ ncalls < MaxCalls
    /\ ncalls' = ncalls + 1
    /\ \E baud \in BaudInputs, format \in FormatInputs, rtscts \in {0, 1} :
          /\ \E r \in SerialInit(baud, format, rtscts) :
                /\ settings' = r.settings
                /\ tty' = r.tty
                /\ sys' = r.sys
                /\ ret' = r.ret
          /\ call' = Call("init", baud, format, rtscts)
    /\ pc' = "port_done"
    /\ UNCHANGED <<fd, exp, btn, cmd, err, wire, rpos, ctx, rx, ubuf, tx,
                   out, pre, wr, osfd, hopen>>

\* SerialReceiveByte(&c, 1), lines 228-233
Port_ReceiveByte ==
    /\ pc = "api"
    /\ ncalls < MaxCalls
    /\ ncalls' = ncalls + 1
    /\ rx' = [buf |-> "ubuf", len |-> 1, length |-> 0, timeout |-> 1,
              off |-> 0, n |-> 1, start |-> rpos, res |-> "none"]
    /\ ubuf' = <<0>>
    /\ ctx' = "byte"
    /\ sys' = <<>>
    /\ call' = Call("receive", 0, NULL, 0)
    /\ pc' = "rx_enter"
    /\ UNCHANGED <<fd, settings, exp, btn, cmd, err, wire, rpos, ret, tx,
                   out, pre, wr, osfd, tty, hopen>>

\* SerialSendByte(0x12), lines 186-189
Port_SendByte ==
    /\ pc = "api"
    /\ ncalls < MaxCalls
    /\ ncalls' = ncalls + 1
    /\ tx' = [buf |-> <<18>>, len |-> 1, off |-> 0, res |-> "none"]
    /\ out' = <<>>
    /\ ctx' = "send"
    /\ sys' = <<>>
    /\ call' = Call("send", 0, NULL, 0)
    /\ pc' = "tx_enter"
    /\ UNCHANGED <<fd, settings, exp, btn, cmd, err, wire, rpos, rx, ret,
                   ubuf, pre, wr, osfd, tty, hopen>>

\* the port function returns and the caller drops the results
Port_Return ==
    /\ pc \in {"port_done", "rx_done", "tx_done"}
    /\ UNCHANGED ncalls
    /\ pc' = "api"
    /\ ctx' = "buffer"
    /\ rx' = IdleRx
    /\ tx' = IdleTx
    /\ ubuf' = <<>>
    /\ out' = <<>>
    /\ ret' = SERIAL_OK
    /\ sys' = <<>>
    /\ call' = IdleCall
    /\ UNCHANGED <<fd, settings, exp, btn, cmd, err, wire, rpos, pre, wr,
                   osfd, tty, hopen>>

\* the process starts, nothing is open; the device holds one of the
\* configurations and has at most one byte to send
InitPort ==
    /\ fd = -1
    /\ settings = ZeroSettings
    /\ osfd = {}
    /\ tty \in {DeviceDefault, DeviceUsed}
    /\ sys = <<>>
    /\ hopen = FALSE
    /\ call = IdleCall
    /\ ncalls = 0
    /\ exp = [p \in 0..1 |-> <<0, 0>>]
    /\ btn = [i \in 0..(NumButtons - 1) |-> 0]
    /\ cmd = Uninit
    /\ err = 0
    /\ wire \in SeqsUpTo({18}, 1)
    /\ rpos = 1
    /\ pc = "api"
    /\ ctx = "buffer"
    /\ rx = IdleRx
    /\ ret = 0
    /\ ubuf = <<>>
    /\ tx = IdleTx
    /\ out = <<>>
    /\ pre = [exp |-> exp, btn |-> btn, rpos |-> rpos]
    /\ wr = {}

NextPort ==
    \/ Port_Open
    \/ Port_Close
    \/ Port_Flush
    \/ Port_Drain
    \/ Port_Init
    \/ Port_ReceiveByte
    \/ Port_SendByte
    \/ Port_Return
    \/ SerialReceiveBuffer_Enter
    \/ SerialReceiveBuffer_Data
    \/ SerialReceiveBuffer_Eintr
    \/ SerialReceiveBuffer_Fail
    \/ SerialReceiveBuffer_Zero
    \/ SerialReceiveBuffer_Done
    \/ SerialSendBuffer_Enter
    \/ SerialSendBuffer_Written
    \/ SerialSendBuffer_Eintr
    \/ SerialSendBuffer_Fail
    \/ SerialSendBuffer_Done

SpecPort == InitPort /\ [][NextPort]_vars

(* ======================================================================= *)
(* Claims about the monitor loop (Spec)                                    *)
(* ======================================================================= *)
ZeroButtons == [i \in 0..(NumButtons - 1) |-> 0]
Ceil(a, b) == (a \div b) + (IF a % b = 0 THEN 0 ELSE 1)

\* C1: an iteration whose command receive ended in a timeout or a read error
\* decodes nothing: at the end of the iteration both pedal slots and all
\* button flags are as at its start and no byte of the stream was consumed.
C1_NoDecodeOnReceiveError ==
    (pc = "render" /\ err # SERIAL_OK) =>
        exp = pre.exp /\ btn = pre.btn /\ rpos = pre.rpos

\* C2: when the command byte was received, every btn[] element written has
\* its index in 0..11, and a command 0xF0|n with n in 12..14 leaves the pedal
\* slots and the button flags as they were.
C2_ButtonIndexInRange ==
    err = SERIAL_OK =>
        /\ wr \subseteq 0..(NumButtons - 1)
        /\ (pc = "render" /\ HighNibble(cmd) = 240
                /\ LowNibble(cmd) \in 12..14) =>
               exp = pre.exp /\ btn = pre.btn

\* C3: when the command byte 0xE0|i was received and the payload receive
\* succeeded, pedal i holds the two bytes that followed the command byte on
\* the stream, in order; the other pedal slot and the buttons are as they
\* were, and exactly the three bytes of the frame were consumed.
C3_PedalFrame ==
    (pc = "rx_done" /\ ctx = "pedal" /\ err = SERIAL_OK /\ ret = SERIAL_OK) =>
        LET i == LowBit(cmd)
        IN /\ wire[pre.rpos] = cmd
           /\ HighNibble(cmd) = 224
           /\ exp[i] = <<wire[pre.rpos + 1], wire[pre.rpos + 2]>>
           /\ exp[1 - i] = pre.exp[1 - i]
           /\ btn = pre.btn
           /\ rpos = pre.rpos + 3

\* a pedal frame was decoded into a slot, its two payload bytes differing
C3_Witness ==
    /\ pc = "rx_done" /\ ctx = "pedal"
    /\ err = SERIAL_OK /\ ret = SERIAL_OK
    /\ exp[LowBit(cmd)] # pre.exp[LowBit(cmd)]
    /\ exp[LowBit(cmd)][1] # exp[LowBit(cmd)][2]

\* C4: after 0xF0|n with n in 0..11 is decoded, button n is set and every
\* other flag and both pedal slots are unchanged; after 0xFF is decoded all
\* 12 flags are clear and the pedal slots unchanged; a flag that was set at
\* the start of an iteration is clear only if the iteration decodes 0xFF.
C4_Buttons ==
    /\ (pc = "render" /\ HighNibble(cmd) = 240 /\ LowNibble(cmd) < NumButtons) =>
           /\ btn = [pre.btn EXCEPT ![LowNibble(cmd)] = 1]
           /\ exp = pre.exp
    /\ (pc = "render" /\ cmd = 255) =>
           btn = ZeroButtons /\ exp = pre.exp
    /\ \A i \in 0..(NumButtons - 1) :
           (pre.btn[i] = 1 /\ btn[i] = 0) => cmd = 255

\* 0xFF is decoded while buttons 3 and 5 are set
C4_Witness ==
    /\ pc = "render" /\ cmd = 255 /\ err = SERIAL_OK
    /\ pre.btn[3] = 1 /\ pre.btn[5] = 1
    /\ btn = ZeroButtons

\* C5: a command byte whose high nibble is neither 0xE nor 0xF changes no
\* pedal slot and no button flag, and nothing beyond the command byte itself
\* is consumed: the next byte of the stream is the next command byte.
C5_UnrecognizedIgnored ==
    (pc = "render" /\ HighNibble(cmd) \notin {224, 240}) =>
        /\ exp = pre.exp /\ btn = pre.btn /\ wr = {}
        /\ rpos = pre.rpos + (IF err = SERIAL_OK THEN 1 ELSE 0)

\* 0x12 is received and decoded while a button is set
C5_Witness ==
    /\ pc = "render" /\ cmd = 18 /\ err = SERIAL_OK
    /\ rpos = pre.rpos + 1
    /\ btn # ZeroButtons

(* ======================================================================= *)
(* Claims about the transport functions (SpecApi)                          *)
(* ======================================================================= *)
\* C6: on an open port, during and after SerialReceiveBuffer the bytes
\* counted are the bytes read() delivered since the call began, never more
\* than requested; they lie at the start of the buffer in arrival order and
\* nothing is stored behind them; in the loop (so also right after an EINTR)
\* count, fill position and remaining length all agree with that number,
\* and the count reported on return is that number.
C6_ReceiveCount ==
    (fd >= 0 /\ ctx \in {"buffer", "byte"} /\ pc \in {"rx_loop", "rx_done"}) =>
        LET got == rpos - rx.start
        IN /\ got <= rx.n
           /\ Len(ubuf) = rx.n
           /\ SubSeq(ubuf, 1, got) = SubSeq(wire, rx.start, rpos - 1)
           /\ \A i \in (got + 1)..Len(ubuf) : ubuf[i] = 0
           /\ pc = "rx_loop" =>
                  rx.length = got /\ rx.off = got /\ rx.len = rx.n - got
           /\ pc = "rx_done" => rx.len = got

\* read() was interrupted after one of three requested bytes had arrived
C6_Witness ==
    /\ pc = "rx_loop" /\ ctx = "buffer"
    /\ rx.res = "eintr"
    /\ rx.n = 3 /\ rx.length = 1 /\ rx.len = 2

\* C7: a read() of zero bytes ends the call with SERIAL_ERR_TIMEOUT when the
\* timeout argument is not negative and with SERIAL_OK when it is negative;
\* either way the count reported is the number of bytes read before it.
C7_ZeroRead ==
    (pc = "rx_done" /\ rx.res = "zero") =>
        /\ ret = (IF rx.timeout >= 0 THEN SERIAL_ERR_TIMEOUT ELSE SERIAL_OK)
        /\ rx.len = rpos - rx.start

\* a zero-byte read after one of two bytes, under a negative timeout
C7_Witness ==
    /\ pc = "rx_done" /\ rx.res = "zero"
    /\ rx.timeout < 0 /\ ret = SERIAL_OK
    /\ rx.n = 2 /\ rx.len = 1

\* C8: SerialReceiveByte returns SERIAL_OK only when the requested byte was
\* received, whatever the timeout argument.
C8_ExactOrError ==
    (pc = "rx_done" /\ ctx = "byte" /\ ret = SERIAL_OK) =>
        rpos - rx.start = rx.n

\* C9: on an open port the bytes write() accepted are always the part of the
\* buffer before the send position, and the remaining length is the rest
\* (so an EINTR leaves the same remainder to retry); when SerialSendBuffer
\* returns SERIAL_OK they are the whole buffer; a write() failure other than
\* EINTR ends the call with SERIAL_ERR_WRITE and nothing more written.
C9_SendAllOrError ==
    (fd >= 0 /\ ctx = "send") =>
        /\ pc \in {"tx_loop", "tx_done"} =>
               /\ out = SubSeq(tx.buf, 1, tx.off)
               /\ tx.len = Len(tx.buf) - tx.off
        /\ (pc = "tx_done" /\ ret = SERIAL_OK) => out = tx.buf
        /\ (pc = "tx_done" /\ tx.res = "fail") => ret = SERIAL_ERR_WRITE
        /\ (pc = "tx_done" /\ ret = SERIAL_ERR_WRITE) => tx.res = "fail"

\* a three-byte buffer whose first bytes differ was sent
C9_Witness ==
    /\ pc = "tx_done" /\ ctx = "send" /\ ret = SERIAL_OK
    /\ Len(tx.buf) = 3 /\ tx.buf[1] # tx.buf[2]
    /\ out = tx.buf

\* C10: for every timeout argument ms >= 0 the VTIME field holds ceil(ms/100)
\* once SerialSetTimeout has run.
C10_CeilStored ==
    (pc = "rx_loop" /\ rx.timeout >= 0) =>
        settings.VTIME = Ceil(rx.timeout, 100)

C17_NoPartialPedal ==
    (pc = "rx_done" /\ ctx = "pedal" /\ err = SERIAL_OK /\ ret # SERIAL_OK) =>
        exp = pre.exp /\ btn = pre.btn

\* C19: in an iteration all of whose reads succeeded the command byte is the
\* byte at the position the iteration started from; after a pedal command
\* the iteration ends two bytes further on, these two bytes are in the pedal
\* slot the command selects and, whatever their value, changed no button and
\* not the other slot; after any other command it ends at the next byte.
C19_Framing ==
    (pc = "render" /\ err = SERIAL_OK /\ ret = SERIAL_OK) =>
        /\ cmd = wire[pre.rpos]
        /\ IF HighNibble(cmd) = 224
           THEN /\ rpos = pre.rpos + 3
                /\ btn = pre.btn /\ wr = {}
                /\ exp = [pre.exp EXCEPT ![LowBit(cmd)] =
                              <<wire[pre.rpos + 1], wire[pre.rpos + 2]>>]
           ELSE rpos = pre.rpos + 1

\* a pedal-0 frame whose payload is 0xF3, 0xE1 was decoded
C19_Witness ==
    /\ pc = "render" /\ err = SERIAL_OK /\ ret = SERIAL_OK
    /\ cmd = 224
    /\ exp[0] = <<243, 225>>
    /\ exp[1] = <<0, 0>> /\ btn = ZeroButtons
    /\ rpos = pre.rpos + 3

\* C16: when main returns after open() handed it a descriptor, close() was
\* called.
C16_ClosedOnExit ==
    (pc = "exit" /\ fd >= 0) =>
        \E i \in DOMAIN sys : sys[i] = "close"

(* ======================================================================= *)
(* Claims about the port functions (SpecPort)                              *)
(* ======================================================================= *)
\* C12: when SerialInit is called with a supported format and returns
\* SERIAL_OK, c_cflag of settings holds exactly the data size, parity, stop
\* bit and handshake bits asked for and the code of the named rate; for a
\* rate without a code it holds BOTHER and c_ospeed is the rate.
C12_ConfigureEncodesRequest ==
    (/\ pc = "port_done" /\ call.op = "init"
     /\ call.format \in SupportedFormats
     /\ ret = SERIAL_OK) =>
        LET f == call.format
            c == settings.c_cflag
        IN /\ c \cap CSIZE = DataSize(f[1])
           /\ c \cap (PARENB \cup PARODD) = Parity(f[2])
           /\ c \cap CSTOPB = StopBits(f[3])
           /\ c \cap CRTSCTS = (IF call.rtscts # 0 THEN CRTSCTS ELSE {})
           /\ IF call.baud \in NamedBauds
              THEN c \cap CBAUD = BaudCode(call.baud)
              ELSE c \cap CBAUD = BOTHER /\ settings.c_ospeed = call.baud

\* C13: SerialInit called with a format that is not one of the supported
\* three-character strings returns SERIAL_ERR_INIT, has issued no system
\* call (no ioctl, no tcflush), and leaves settings and the driver's
\* configuration as they were before the call.
C13_InvalidFormatRejected ==
    (/\ pc = "port_done" /\ call.op = "init"
     /\ call.format \notin SupportedFormats) =>
        /\ ret = SERIAL_ERR_INIT
        /\ sys = <<>>
        /\ settings = call.settings
        /\ tty = call.tty

\* an open, configured port was handed "8N3"
C13_Witness ==
    /\ pc = "port_done" /\ call.op = "init"
    /\ call.format = <<"8", "N", "3">>
    /\ call.hopen /\ fd \in osfd
    /\ settings.c_cflag # {} /\ settings = call.settings
    /\ ret = SERIAL_ERR_INIT /\ sys = <<>>

\* C14: SerialClose called while the handle is closed (never opened, the
\* last SerialOpen failed, or closed before) releases no descriptor.
C14_CloseIdempotent ==
    (pc = "port_done" /\ call.op = "close" /\ ~call.hopen) =>
        osfd = call.osfd

\* C15: while the handle is closed, SerialFlush, SerialDrain and SerialInit
\* return an error without a system call, and no receive or send gets as
\* far as its read() or write() loop.
C15_ClosedIssuesNoCall ==
    /\ (/\ pc = "port_done" /\ call.op \in {"flush", "drain", "init"}
        /\ ~call.hopen) =>
           sys = <<>> /\ ret # SERIAL_OK
    /\ pc \in {"rx_loop", "tx_loop"} => hopen

(* ======================================================================= *)
(* Further claims about the transport functions (SpecApi)                  *)
(* ======================================================================= *)
\* C20: every result of write() other than EINTR brings the send nearer to
\* its return: it shortens the unsent remainder or ends the call.
C20_WriteResultsProgress ==
    [][(pc = "tx_loop" /\ tx.len > 0 /\ tx'.res # "eintr") =>
           (tx'.len < tx.len \/ pc' = "tx_done")]_vars

====
